---- MODULE Spec2Model ----
(***************************************************************************)
(* Model of package isyns (go-isy): the ISY node-server adapter.           *)
(*                                                                         *)
(* The model follows the server with per-profile address prefixes         *)
(* (addrPrefix, parseAddr, routes under /ns).                              *)
(*                                                                         *)
(* One inbound call is one goroutine running Server.handler; the decoded   *)
(* Request is handed to the application through the channel s.rawReqs.     *)
(* Strings are TLA+ strings; the character operations of the code          *)
(* (strings.HasPrefix, strings.Index, strconv.Atoi, slicing) are modelled  *)
(* on the characters with Len, SubSeq and \o.                              *)
(*                                                                         *)
(* A path is the sequence of segments of r.URL.Path after the leading "/"; *)
(* "/ns/add/nodes" is <<"ns", "add", "nodes">>, an empty segment is "".    *)
(* A query is the sequence of <<key, value>> pairs of r.URL.RawQuery.      *)
(***************************************************************************)
EXTENDS Integers, Sequences, FiniteSets, TLC

VARIABLES
    addrPrefix,  \* s.addrPrefix, set by NewServer
    serving,     \* httpServer: "new", "serving" (inside Serve), "stopped" (Serve returned)
    chanClosed,  \* whether s.rawReqs has been closed
    pc,          \* per call: position of its connection goroutine
    input,       \* per call: the http.Request being handled (<<>> before it arrives)
    stage,       \* per call: the furthest step of Server.handler that ran
    resp,        \* per call: what the handler wrote to its http.ResponseWriter
    wire,        \* per call: the response the controller has received (<<>>: none yet)
    req,         \* per call: the Request the handler constructed (<<>>: nil)
    buf,         \* s.rawReqs: calls whose Request sits in the channel's buffer
    sendq,       \* s.rawReqs: calls blocked in "s.rawReqs <- req", in arrival order
    received,    \* the calls whose Request the consumer has received, in order
    clientBaseURL, \* s.client.BaseURL, set by NewServer: the segments of its path
    lastCall,    \* the latest outbound call of the application: what it was
                 \* given, the HTTP requests it issued, what it returned
    nCalls,      \* how many outbound calls the application has started
    openResps,   \* HTTP responses obtained from the controller and not closed
    crashed      \* the process died of an unrecovered panic

clientVars == <<clientBaseURL, lastCall, nCalls, openResps, crashed>>

vars == <<addrPrefix, serving, chanClosed, pc, input, stage, resp, wire, req,
          buf, sendq, received, clientVars>>

---------------------------------------------------------------------------
(* Bounds of the model.                                                    *)

NumCalls == 2

\* outbound calls the application makes in one behaviour
MaxClientCalls == 3

Calls == 1..NumCalls

---------------------------------------------------------------------------
(* String helpers: the Go library functions the package calls.             *)

CharAt(s, i) == SubSeq(s, i, i)

DigitChars == "0123456789"

IsDigit(ch) == \E d \in 1..10 : CharAt(DigitChars, d) = ch

DigitVal(ch) == (CHOOSE d \in 1..10 : CharAt(DigitChars, d) = ch) - 1

RECURSIVE DecVal(_)
DecVal(s) ==
    IF Len(s) = 0 THEN 0
    ELSE 10 * DecVal(SubSeq(s, 1, Len(s) - 1)) + DigitVal(CharAt(s, Len(s)))

\* strings.HasPrefix
HasPrefix(s, prefix) ==
    Len(s) >= Len(prefix) /\ SubSeq(s, 1, Len(prefix)) = prefix

\* strings.Index: the 0-based position of the first occurrence, or -1
Index(s, substr) ==
    LET hits == { i \in 0..(Len(s) - Len(substr)) :
                    SubSeq(s, i + 1, i + Len(substr)) = substr }
    IN  IF hits = {} THEN -1
        ELSE CHOOSE i \in hits : \A j \in hits : i <= j

\* strconv.Atoi: an optional sign followed by one or more decimal digits.
\* (The strings of the model are short, so no value is out of int range.)
AtoiErr == [ok |-> FALSE, n |-> 0]

Atoi(s) ==
    IF Len(s) = 0 THEN AtoiErr
    ELSE LET signed == CharAt(s, 1) \in {"+", "-"}
             digits == IF signed THEN SubSeq(s, 2, Len(s)) ELSE s
         IN  IF Len(digits) < 1 \/ \E i \in 1..Len(digits) : ~IsDigit(CharAt(digits, i))
             THEN AtoiErr
             ELSE [ok |-> TRUE,
                   n  |-> IF CharAt(s, 1) = "-" THEN 0 - DecVal(digits) ELSE DecVal(digits)]

\* strconv.Itoa for non-negative numbers
RECURSIVE Itoa(_)
Itoa(n) ==
    IF n < 10 THEN CharAt(DigitChars, n + 1)
    ELSE Itoa(n \div 10) \o CharAt(DigitChars, (n % 10) + 1)

\* fmt.Sprintf("n%03d_", profileNum)
RECURSIVE ZeroPad(_, _)
ZeroPad(s, width) == IF Len(s) >= width THEN s ELSE ZeroPad("0" \o s, width)

SprintfAddrPrefix(profileNum) == "n" \o ZeroPad(Itoa(profileNum), 3) \o "_"

---------------------------------------------------------------------------
(* Package isy: units of measure.  isy.UOM is an integer code; the value   *)
(* isy.UOMUnknown is the "unknown" sentinel.                               *)

UOM(n) == [known |-> TRUE, code |-> n]

UOMUnknown == [known |-> FALSE, code |-> 0]

\* the zero value of isy.UOM, left in a CommandParam whose UOM is not set
UOMZeroValue == UOM(0)

---------------------------------------------------------------------------
(* Construction: NewServer.                                                *)

\* Config.Username and Config.Password of the running server
ConfigUsername == "isy"

ConfigPassword == "secret"

\* crypto/sha256.Sum256, abstracted as an injective digest
Sum256(password) == <<"sha256", password>>

\* crypto/subtle.ConstantTimeCompare
ConstantTimeCompare(x, y) == IF x = y THEN 1 ELSE 0

\* s.passwordSHA256
passwordSHA256 == Sum256(ConfigPassword)

\* make(chan Request): the capacity of s.rawReqs
ChanCap_buffered == 0 + 1

ChanCap == 0

\* the profile numbers NewServer is called with
ProfileNums == {1, 12}

---------------------------------------------------------------------------
(* The route table built by init().                                        *)

Routes == <<
    [name |-> "install",              tpl |-> <<"ns", "install", "{profileNum}">>],
    [name |-> "nodeQuery",            tpl |-> <<"ns", "nodes", "{nodeAddr}", "query">>],
    [name |-> "nodeStatus",           tpl |-> <<"ns", "nodes", "{nodeAddr}", "status">>],
    [name |-> "addAllNodes",          tpl |-> <<"ns", "add", "nodes">>],
    [name |-> "addNode",              tpl |-> <<"ns", "nodes", "{nodeAddr}", "report", "add", "{nodeDefId}">>],
    [name |-> "removeNode",           tpl |-> <<"ns", "nodes", "{nodeAddr}", "report", "remove">>],
    [name |-> "renameNode",           tpl |-> <<"ns", "nodes", "{nodeAddr}", "report", "rename">>],
    [name |-> "enableNode",           tpl |-> <<"ns", "nodes", "{nodeAddr}", "report", "enable">>],
    [name |-> "disableNode",          tpl |-> <<"ns", "nodes", "{nodeAddr}", "report", "disable">>],
    [name |-> "nodeCommand",          tpl |-> <<"ns", "nodes", "{nodeAddr}", "cmd", "{command}">>],
    [name |-> "nodeCommandValue",     tpl |-> <<"ns", "nodes", "{nodeAddr}", "cmd", "{command}", "{value}">>],
    [name |-> "nodeCommandValueUnit", tpl |-> <<"ns", "nodes", "{nodeAddr}", "cmd", "{command}", "{value}", "{unit}">>]
>>

\* a template segment "{name}" is a variable; mux compiles it to [^/]+
IsVar(seg) == Len(seg) >= 1 /\ CharAt(seg, 1) = "{"

\* whether a route's path template matches the whole path
TplMatches_prefix(tpl, path) ==
    /\ Len(tpl) <= Len(path)
    /\ \A i \in 1..Len(tpl) :
          IF IsVar(tpl[i]) THEN Len(path[i]) >= 1 ELSE path[i] = tpl[i]

TplMatches(tpl, path) ==
    /\ Len(tpl) = Len(path)
    /\ \A i \in 1..Len(tpl) :
          IF IsVar(tpl[i]) THEN Len(path[i]) >= 1 ELSE path[i] = tpl[i]

\* router.Match: the first route of the table that matches; 0 when none does.
\* (No route names a method, so the method takes no part in the match.)
RouterMatch(path) ==
    LET hits == { i \in 1..Len(Routes) : TplMatches(Routes[i].tpl, path) }
    IN  IF hits = {} THEN 0 ELSE CHOOSE i \in hits : \A j \in hits : i <= j

\* match.Vars[name]: the segment the variable matched, "" when the route has none
MatchVar(route, path, name) ==
    LET tpl == Routes[route].tpl
        at  == { i \in 1..Len(tpl) : tpl[i] = "{" \o name \o "}" }
    IN  IF at = {} THEN "" ELSE path[CHOOSE i \in at : TRUE]

---------------------------------------------------------------------------
(* The inbound http.Request.                                               *)

\* r.BasicAuth(): ok only for a well-formed Basic header
BasicAuth(r) ==
    IF r.auth.kind = "basic"
    THEN [username |-> r.auth.username, password |-> r.auth.password, ok |-> TRUE]
    ELSE [username |-> "", password |-> "", ok |-> FALSE]

\* r.URL.Query(): the keys of the parsed query
QueryKeys(q) == { q[i][1] : i \in 1..Len(q) }

\* r.URL.Query()[k]: the values of key k, in the order they are written
RECURSIVE QueryValues(_, _)
QueryValues(q, k) ==
    IF Len(q) = 0 THEN <<>>
    ELSE IF Head(q)[1] = k THEN <<Head(q)[2]>> \o QueryValues(Tail(q), k)
         ELSE QueryValues(Tail(q), k)

\* url.Values.Get: the first value of the key, "" when it has none
QueryGet(q, k) == IF QueryValues(q, k) = <<>> THEN "" ELSE QueryValues(q, k)[1]

\* the orders in which "range r.URL.Query()" may visit the keys
KeyOrders(q) ==
    LET keys == QueryKeys(q)
        n    == Cardinality(keys)
    IN  { o \in [1..n -> keys] : \A i, j \in 1..n : i # j => o[i] # o[j] }

---------------------------------------------------------------------------
(* Server.handler and its helpers.                                         *)

\* Server.parseAddr: strip the profile prefix; pass anything else through
parseAddr_noStrip(given) == given

parseAddr_always(given) == SubSeq(given, Len(addrPrefix) + 1, Len(given))

parseAddr(given) ==
    IF ~HasPrefix(given, addrPrefix) THEN given
    ELSE SubSeq(given, Len(addrPrefix) + 1, Len(given))

\* Server.formatAddr
formatAddr(base) == addrPrefix \o base

\* Server.makeCommonReq: the embedded request{id, server}
makeCommonReq(r) == [id |-> QueryGet(r.query, "requestId"), server |-> "s"]

\* the nil map makeCommandParams returns when it stores nothing
NilParams == [name \in {} |-> UOMUnknown]

\* one iteration of the loop of makeCommandParams, for key k, on the map ret
ParamsStep(q, k, ret) ==
    LET vs       == QueryValues(q, k)
        splitPos == Index(k, ".uom")
        unit     == Atoi(SubSeq(k, splitPos + 4 + 1, Len(k)))
        split    == splitPos # -1 /\ unit.ok
        name     == IF split THEN SubSeq(k, 1, splitPos) ELSE k
        uom      == IF split THEN UOM(unit.n) ELSE UOMUnknown
        param    == [Value |-> vs[1], UOM |-> uom]
    IN  IF k = "requestId" \/ Len(vs) = 0 THEN ret
        ELSE [n \in (DOMAIN ret) \cup {name} |-> IF n = name THEN param ELSE ret[n]]

\* Server.makeCommandParams, the keys visited in the given order
RECURSIVE makeCommandParams(_, _)
makeCommandParams(q, order) ==
    IF Len(order) = 0 THEN NilParams
    ELSE ParamsStep(q, order[Len(order)],
                    makeCommandParams(q, SubSeq(order, 1, Len(order) - 1)))

\* the "unit" step of case "nodeCommandValueUnit": strconv.Atoi of the segment
ParseUnit_lenient(seg) == IF Atoi(seg).ok THEN Atoi(seg) ELSE [ok |-> TRUE, n |-> 0]

ParseUnit(seg) == Atoi(seg)

\* the switch on match.Route.GetName(): the Request built, <<>> when req stays nil
Decode(r, route, order) ==
    LET name     == Routes[route].name
        common   == makeCommonReq(r)
        v(x)     == MatchVar(route, r.path, x)
        nodeAddr == parseAddr(v("nodeAddr"))
        params   == makeCommandParams(r.query, order)
        unit     == ParseUnit(v("unit"))
    IN  CASE name = "install" ->
               << [type |-> "InstallRequest", request |-> common] >>
          [] name = "nodeQuery" ->
               << [type |-> "NodeQueryRequest", request |-> common, NodeAddr |-> nodeAddr] >>
          [] name = "nodeStatus" ->
               << [type |-> "NodeStatusValuesRequest", request |-> common,
                   NodeAddr |-> nodeAddr] >>
          [] name = "addAllNodes" ->
               << [type |-> "AddAllNodesRequest", request |-> common] >>
          [] name = "addNode" ->
               << [type |-> "AddNodeRequest", request |-> common, NodeAddr |-> nodeAddr,
                   NodeDefID   |-> v("nodeDefId"),
                   PrimaryAddr |-> parseAddr(QueryGet(r.query, "primary")),
                   Name        |-> QueryGet(r.query, "name")] >>
          [] name = "removeNode" ->
               << [type |-> "RemoveNodeRequest", request |-> common, NodeAddr |-> nodeAddr] >>
          [] name = "renameNode" ->
               << [type |-> "RenameNodeRequest", request |-> common, NodeAddr |-> nodeAddr,
                   Name |-> QueryGet(r.query, "name")] >>
          [] name = "enableNode" ->
               << [type |-> "EnableNodeRequest", request |-> common, NodeAddr |-> nodeAddr,
                   Enabled |-> TRUE] >>
          [] name = "disableNode" ->
               << [type |-> "EnableNodeRequest", request |-> common, NodeAddr |-> nodeAddr,
                   Enabled |-> FALSE] >>
          [] name = "nodeCommand" ->
               << [type |-> "CommandRequest", request |-> common, NodeAddr |-> nodeAddr,
                   Command |-> v("command"), Param |-> <<>>, Params |-> params] >>
          [] name = "nodeCommandValue" ->
               << [type |-> "CommandRequest", request |-> common, NodeAddr |-> nodeAddr,
                   Command |-> v("command"),
                   Param   |-> << [Value |-> v("value"), UOM |-> UOMZeroValue] >>,
                   Params  |-> params] >>
          [] name = "nodeCommandValueUnit" ->
               IF ~unit.ok THEN <<>>
               ELSE << [type |-> "CommandRequest", request |-> common,
                        NodeAddr |-> nodeAddr, Command |-> v("command"),
                        Param    |-> << [Value |-> v("value"), UOM |-> UOM(unit.n)] >>,
                        Params   |-> params] >>

\* the three credential checks at the head of the handler
Authenticated_userOnly(r) ==
    BasicAuth(r).ok /\ BasicAuth(r).username = ConfigUsername

Authenticated(r) ==
    /\ BasicAuth(r).ok
    /\ BasicAuth(r).username = ConfigUsername
    /\ ConstantTimeCompare(Sum256(BasicAuth(r).password), passwordSHA256) = 1

\* what the handler writes to its http.ResponseWriter
NoResponse   == [status |-> 0,   body |-> ""]

Unauthorized == [status |-> 401, body |-> "Unauthorized"]

NotFound     == [status |-> 404, body |-> "Not Found"]

NoContent    == [status |-> 204, body |-> ""]

---------------------------------------------------------------------------
(* The inbound calls the controller makes.                                 *)

AuthOK        == [kind |-> "basic", username |-> "isy",   password |-> "secret"]

AuthBadUser   == [kind |-> "basic", username |-> "admin", password |-> "secret"]

AuthBadPass   == [kind |-> "basic", username |-> "isy",   password |-> "guess"]

AuthMissing   == [kind |-> "none"]

AuthMalformed == [kind |-> "malformed"]

Auths == {AuthOK, AuthBadUser, AuthBadPass, AuthMissing, AuthMalformed}

\* the values a path variable is filled with
VarValues(seg) ==
    CASE seg = "{profileNum}" -> {"1"}
      [] seg = "{nodeAddr}"   -> {"n001_AA", "n012_AA", "AA", "n001_", "n001_n001_AA", ""}
      [] seg = "{nodeDefId}"  -> {"dimmer"}
      [] seg = "{command}"    -> {"DON"}
      [] seg = "{value}"      -> {"100"}
      [] seg = "{unit}"       -> {"51", "0", "-5", "+7", "abc", "5x", ""}

RECURSIVE Fill(_)
Fill(tpl) ==
    IF Len(tpl) = 0 THEN { <<>> }
    ELSE { <<s>> \o rest :
             s \in (IF IsVar(Head(tpl)) THEN VarValues(Head(tpl)) ELSE {Head(tpl)}),
             rest \in Fill(Tail(tpl)) }

FilledPaths == UNION { Fill(Routes[i].tpl) : i \in 1..Len(Routes) }

\* the filled templates, and the same with the first segment dropped, a segment
\* appended, a trailing slash, or a literal replaced
DecodePaths ==
    FilledPaths
      \cup { Tail(p) : p \in FilledPaths }
      \cup { p \o <<"x">> : p \in FilledPaths }
      \cup { p \o <<"">> : p \in FilledPaths }
      \cup { [p EXCEPT ![2] = "node"] : p \in FilledPaths }
      \cup { <<>>, <<"ns">>, <<"ns", "nodes">>, <<"ns", "nodes", "n001_AA">>,
             <<"ns", "nodes", "n001_AA", "cmd">>, <<"ns", "nodes", "n001_AA", "report">> }

DecodeQueries == {
    <<>>,
    << <<"requestId", "r1">> >>,
    << <<"level.uom2", "50">>, <<"mode", "auto">>, <<"requestId", "r1">> >>,
    << <<"level.uom-2", "50">> >>,
    << <<"a.uom1.uom2", "7">> >>,
    << <<"level.uom2", "50">>, <<"level", "60">> >>,
    << <<"level.uom", "50">>, <<"x.uomabc", "1">> >>,
    << <<"mode", "auto">>, <<"mode", "manual">> >>,
    << <<"primary", "n001_BB">>, <<"name", "Lamp">>, <<"requestId", "">> >>,
    << <<"primary", "n001_n001_BB">>, <<"requestId", "r2">> >>,
    << <<"requestId.uom5", "x">>, <<"requestId", "r1">> >> }

\* r.Method
Methods == {"GET", "POST"}

DecodeInputs ==
    { [method |-> m, auth |-> a, path |-> p, query |-> q] :
        m \in Methods, a \in Auths, p \in DecodePaths, q \in DecodeQueries }

\* the calls of the concurrent specification: a few of each outcome
SpecInputs ==
    { [method |-> "GET", auth |-> a, path |-> p, query |-> q] :
        a \in {AuthOK, AuthBadPass},
        p \in { <<"ns", "add", "nodes">>,
                <<"ns", "nodes", "n001_AA", "cmd", "DON", "100", "51">>,
                <<"ns", "nodes", "n001_AA", "cmd", "DON", "100", "abc">>,
                <<"nodes", "n001_AA", "query">> },
        q \in { <<>>, << <<"requestId", "r1">> >> } }

---------------------------------------------------------------------------
(* State after NewServer.                                                  *)

---------------------------------------------------------------------------
(* The outbound client (nsClient).  A URL is the sequence of the ESCAPED   *)
(* segments of its path below the host, and a set of <<key, value>> query  *)
(* pairs; the host is the controller's throughout.                         *)

\* url.PathEscape on one character, for the characters of the inputs:
\* letters, digits, "_", "-" and "." stay, the others become %XX
EscapeChar(ch) ==
    CASE ch = "/" -> "%2F"
      [] ch = "?" -> "%3F"
      [] ch = "%" -> "%25"
      [] ch = " " -> "%20"
      [] OTHER -> ch

RECURSIVE PathEscape(_)
PathEscape(s) ==
    IF s = "" THEN ""
    ELSE EscapeChar(CharAt(s, 1)) \o PathEscape(SubSeq(s, 2, Len(s)))

\* path.Clean on the elements of a relative path: empty and "." elements
\* go, ".." removes the element before it (a leading ".." stays)
RECURSIVE Clean(_, _)
Clean(out, rest) ==
    IF rest = <<>> THEN out
    ELSE LET e == Head(rest)
         IN  Clean(IF e = "" \/ e = "." THEN out
                   ELSE IF e = ".."
                        THEN IF out # <<>> /\ out[Len(out)] # ".."
                             THEN SubSeq(out, 1, Len(out) - 1)
                             ELSE Append(out, "..")
                        ELSE Append(out, e),
                   Tail(rest))

\* path.Join: the elements joined with "/" and cleaned; no escaped element
\* holds a "/", so the elements are the segments
Join(parts) == Clean(<<>>, parts)

\* net/url resolvePath: dot segments removed, ".." at the root ignored
RECURSIVE RemoveDots(_, _)
RemoveDots(out, rest) ==
    IF rest = <<>> THEN out
    ELSE LET e == Head(rest)
         IN  RemoveDots(IF e = "." THEN out
                        ELSE IF e = ".."
                             THEN SubSeq(out, 1, Len(out) - (IF out = <<>> THEN 0 ELSE 1))
                             ELSE Append(out, e),
                        Tail(rest))

\* URL.ResolveReference of a relative path against a base whose path ends
\* with "/" (base: the segments before that final "/")
ResolveReference(base, ref) == RemoveDots(<<>>, base \o ref)

\* the path of isyConfig.BaseURL: the controller's root
IsyBasePath == <<>>

\* NewServer: the service base URL of profile n, <ISY base>/rest/ns/<n>/
NewServerBaseURL(n) ==
    ResolveReference(IsyBasePath, Join(<<"rest", "ns", Itoa(n)>>))

\* nsClient.MakeURL: every part escaped, the parts joined, the result
\* resolved against BaseURL
MakeURL(parts) ==
    [path  |-> ResolveReference(clientBaseURL,
                   Join([i \in DOMAIN parts |-> PathEscape(parts[i])])),
     query |-> {}]

\* nsClient.FormatAddr and nsClient.ParseAddr (c.AddrPrefix is s.addrPrefix)
FormatAddr(base) == addrPrefix \o base

ParseAddr(given) ==
    IF ~HasPrefix(given, addrPrefix) THEN given
    ELSE SubSeq(given, Len(addrPrefix) + 1, Len(given))

\* nsClient.ReportRequestStatus up to its c.Request(url): the URL requested
ReportRequestStatus(id, success) ==
    MakeURL(<<"report", "status", id, IF success THEN "success" ELSE "fail">>)

\* nsClient.AddNode up to its c.Request(url): the URL requested
AddNode(addr, defId, primaryAddr, name) ==
    LET url == MakeURL(<<"nodes", FormatAddr(addr), "add", defId>>)
    IN  [url EXCEPT !.query =
            (IF primaryAddr # "" THEN { <<"primary", FormatAddr(primaryAddr)>> } ELSE {})
            \cup (IF name # "" THEN { <<"name", name>> } ELSE {})]

\* nsClient.Request up to http.DefaultClient.Do: the one GET it issues
\* (the URL resolved against BaseURL once more: it is absolute already)
RequestSent(url) ==
    [method |-> "GET", path |-> RemoveDots(<<>>, url.path), query |-> url.query]

\* what http.DefaultClient.Do gives: a transport failure (nil response and
\* an error), or a response with a status
TransportError == [err |-> TRUE, status |-> 0]

Outcomes ==
    { TransportError } \cup { [err |-> FALSE, status |-> st] : st \in {200, 204, 304, 404, 500} }

\* nsClient.Request after Do: the log line reads resp.StatusCode before err
\* is looked at, a nil dereference when the transport failed; then err,
\* then the status
RequestReturn(o) ==
    IF o.err THEN "panic"
    ELSE IF o.status >= 400 THEN "error"
    ELSE "nil"

NoCall == [op |-> "none", args |-> <<>>, parts |-> <<>>, sent |-> <<>>,
           outcome |-> <<>>, ret |-> "nil"]

\* the application's inputs to the outbound calls
Ids == {"", "r1", ".", "..", "a/b", "a?b", "50%"}

AddNodeArgs ==
    { [addr |-> a, defId |-> d, primaryAddr |-> p, name |-> n] :
        a \in {"AA", "n001_AA", ""}, d \in {"dimmer", "", "..", "a/b"},
        p \in {"", "BB", "n001_BB"}, n \in {"", "Lamp"} }

---------------------------------------------------------------------------
Init ==
    /\ \E n \in ProfileNums :
          /\ addrPrefix = SprintfAddrPrefix(n)
          /\ clientBaseURL = NewServerBaseURL(n)
    /\ lastCall = NoCall
    /\ nCalls = 0
    /\ openResps = 0
    /\ crashed = FALSE
    /\ serving = "new"
    /\ chanClosed = FALSE
    /\ pc = [c \in Calls |-> "idle"]
    /\ input = [c \in Calls |-> <<>>]
    /\ stage = [c \in Calls |-> <<>>]
    /\ resp = [c \in Calls |-> NoResponse]
    /\ wire = [c \in Calls |-> <<>>]
    /\ req = [c \in Calls |-> <<>>]
    /\ buf = <<>>
    /\ sendq = <<>>
    /\ received = <<>>

---------------------------------------------------------------------------
(* Actions.                                                                *)

\* Server.Serve / ListenAndServe / ListenAndServeTLS is called
Serve ==
    /\ serving = "new"
    /\ serving' = "serving"
    /\ UNCHANGED clientVars
    /\ UNCHANGED <<addrPrefix, chanClosed, pc, input, stage, resp, wire, req,
                   buf, sendq, received>>

\* httpServer.Serve returns (the listener failed): no connection is accepted
\* any more.  Nothing else happens: no statement of the package closes rawReqs.
ServeReturn ==
    /\ serving = "serving"
    /\ serving' = "stopped"
    /\ UNCHANGED clientVars
    /\ UNCHANGED <<addrPrefix, chanClosed, pc, input, stage, resp, wire, req,
                   buf, sendq, received>>

\* the accept loop of httpServer.Serve starts the goroutine of a connection
Accept(c) ==
    /\ serving = "serving"
    /\ pc[c] = "idle"
    /\ pc' = [pc EXCEPT ![c] = "conn"]
    /\ UNCHANGED clientVars
    /\ UNCHANGED <<addrPrefix, serving, chanClosed, input, stage, resp, wire, req,
                   buf, sendq, received>>

\* "s.rawReqs <- req" by the goroutine of call c: the value goes into the
\* buffer when there is room, otherwise the goroutine blocks in the send queue
ChanSend_drop(c) ==
    /\ pc' = [pc EXCEPT ![c] = "ret"]
    /\ UNCHANGED <<buf, sendq>>

ChanSend(c) ==
    IF Len(buf) < ChanCap
    THEN /\ buf' = Append(buf, c)
         /\ pc' = [pc EXCEPT ![c] = "ret"]
         /\ UNCHANGED sendq
    ELSE /\ sendq' = Append(sendq, c)
         /\ pc' = [pc EXCEPT ![c] = "send"]
         /\ UNCHANGED buf

\* the handler returns having written response w: net/http finishes the request
\* and flushes the buffered response to the connection
Finish(c, w) ==
    /\ resp' = [resp EXCEPT ![c] = w]
    /\ wire' = [wire EXCEPT ![c] = <<w>>]
    /\ pc' = [pc EXCEPT ![c] = "done"]

\* Server.handler for request r on connection c, up to its return or to the
\* channel send.  w.WriteHeader(204) records the status in the ResponseWriter;
\* net/http writes a response to the connection when the handler returns.
Handle(c, r) ==
    /\ input' = [input EXCEPT ![c] = <<r>>]
    /\ IF ~Authenticated(r)
       THEN /\ stage' = [stage EXCEPT ![c] = <<"auth">>]
            /\ Finish(c, Unauthorized)
            /\ UNCHANGED <<req, buf, sendq>>
       ELSE IF RouterMatch(r.path) = 0
       THEN /\ stage' = [stage EXCEPT ![c] = <<"auth", "route">>]
            /\ Finish(c, NotFound)
            /\ UNCHANGED <<req, buf, sendq>>
       ELSE \E order \in KeyOrders(r.query) :
              LET built == Decode(r, RouterMatch(r.path), order)
              IN  IF built = <<>>
                  THEN /\ stage' = [stage EXCEPT ![c] = <<"auth", "route", "decode">>]
                       /\ Finish(c, NotFound)
                       /\ UNCHANGED <<req, buf, sendq>>
                  ELSE /\ stage' = [stage EXCEPT
                                      ![c] = <<"auth", "route", "decode", "ack", "send">>]
                       /\ req' = [req EXCEPT ![c] = built]
                       /\ resp' = [resp EXCEPT ![c] = NoContent]
                       /\ ChanSend(c)
                       /\ UNCHANGED wire
    /\ UNCHANGED clientVars
    /\ UNCHANGED <<addrPrefix, serving, chanClosed, received>>

\* a request of the set "calls" arrives on connection c and its goroutine runs
\* Server.handler on it
Handler(c, calls) ==
    /\ pc[c] = "conn"
    /\ \E r \in calls : Handle(c, r)

\* the consumer receives from s.Requests: the oldest buffered value, else the
\* value of the longest-blocked sender, which is released
Recv ==
    /\ Len(buf) > 0 \/ Len(sendq) > 0
    /\ IF Len(buf) > 0
       THEN /\ received' = Append(received, Head(buf))
            /\ IF Len(sendq) > 0
               THEN /\ buf' = Append(Tail(buf), Head(sendq))
                    /\ sendq' = Tail(sendq)
                    /\ pc' = [pc EXCEPT ![Head(sendq)] = "ret"]
               ELSE /\ buf' = Tail(buf)
                    /\ UNCHANGED <<sendq, pc>>
       ELSE /\ received' = Append(received, Head(sendq))
            /\ sendq' = Tail(sendq)
            /\ pc' = [pc EXCEPT ![Head(sendq)] = "ret"]
            /\ UNCHANGED buf
    /\ UNCHANGED clientVars
    /\ UNCHANGED <<addrPrefix, serving, chanClosed, input, stage, resp, wire, req>>

\* the handler of call c returns after its send completed: net/http finishes
\* the request and the recorded response reaches the controller
Return(c) ==
    /\ pc[c] = "ret"
    /\ pc' = [pc EXCEPT ![c] = "done"]
    /\ wire' = [wire EXCEPT ![c] = <<resp[c]>>]
    /\ UNCHANGED clientVars
    /\ UNCHANGED <<addrPrefix, serving, chanClosed, input, stage, resp, req,
                   buf, sendq, received>>

---------------------------------------------------------------------------
(* Specifications.                                                         *)

\* the application may start an outbound call: it is running and is not
\* inside one
CanCall ==
    /\ ~crashed
    /\ lastCall.ret # "pending"
    /\ nCalls < MaxClientCalls

InboundVars == <<addrPrefix, serving, chanClosed, pc, input, stage, resp, wire,
                 req, buf, sendq, received>>

\* request.Complete(success) on a Request with correlation id id
CallComplete(id, success) ==
    /\ CanCall
    /\ nCalls' = nCalls + 1
    /\ lastCall' =
          IF id = ""
          THEN [op |-> "Complete", args |-> [id |-> id, success |-> success],
                parts |-> <<>>, sent |-> <<>>, outcome |-> <<>>, ret |-> "nil"]
          ELSE LET url == ReportRequestStatus(id, success)
               IN  [op |-> "Complete", args |-> [id |-> id, success |-> success],
                    parts |-> <<"report", "status", id,
                                IF success THEN "success" ELSE "fail">>,
                    sent |-> <<RequestSent(url)>>, outcome |-> <<>>, ret |-> "pending"]
    /\ UNCHANGED <<clientBaseURL, openResps, crashed>>
    /\ UNCHANGED InboundVars

\* nsClient.ReportRequestStatus(id, success) called by itself
CallReportRequestStatus(id, success) ==
    /\ CanCall
    /\ nCalls' = nCalls + 1
    /\ lastCall' =
          [op |-> "ReportRequestStatus", args |-> [id |-> id, success |-> success],
           parts |-> <<"report", "status", id, IF success THEN "success" ELSE "fail">>,
           sent |-> <<RequestSent(ReportRequestStatus(id, success))>>,
           outcome |-> <<>>, ret |-> "pending"]
    /\ UNCHANGED <<clientBaseURL, openResps, crashed>>
    /\ UNCHANGED InboundVars

\* Server.AddNode(addr, defId, primaryAddr, name)
CallAddNode(a) ==
    /\ CanCall
    /\ nCalls' = nCalls + 1
    /\ lastCall' =
          [op |-> "AddNode", args |-> a,
           parts |-> <<"nodes", FormatAddr(a.addr), "add", a.defId>>,
           sent |-> <<RequestSent(AddNode(a.addr, a.defId, a.primaryAddr, a.name))>>,
           outcome |-> <<>>, ret |-> "pending"]
    /\ UNCHANGED <<clientBaseURL, openResps, crashed>>
    /\ UNCHANGED InboundVars

\* http.DefaultClient.Do returns with outcome o and nsClient.Request runs to
\* its end; the response's body is never closed
ClientDo(o) ==
    /\ ~crashed
    /\ lastCall.ret = "pending"
    /\ lastCall' = [lastCall EXCEPT !.outcome = <<o>>, !.ret = RequestReturn(o)]
    /\ openResps' = IF o.err THEN openResps ELSE openResps + 1
    /\ crashed' = (RequestReturn(o) = "panic")
    /\ UNCHANGED <<clientBaseURL, nCalls>>
    /\ UNCHANGED InboundVars

Next ==
    \/ Serve
    \/ ServeReturn
    \/ \E c \in Calls : Accept(c)
    \/ \E c \in Calls : Handler(c, SpecInputs)
    \/ Recv
    \/ \E c \in Calls : Return(c)

Spec == Init /\ [][Next]_vars

\* the consumer keeps receiving and a runnable goroutine is eventually run
FairSpec ==
    /\ Spec
    /\ WF_vars(Recv)
    /\ \A c \in Calls : WF_vars(Return(c))

\* one call, drawn from the large input set: the decoding of every route
DecodeNext ==
    \/ Serve
    \/ ServeReturn
    \/ Accept(1)
    \/ Handler(1, DecodeInputs)
    \/ Recv
    \/ Return(1)

DecodeSpec == Init /\ [][DecodeNext]_vars

\* the application's outbound calls, one at a time
ClientNext ==
    \/ \E id \in Ids, success \in BOOLEAN : CallComplete(id, success)
    \/ \E id \in Ids, success \in BOOLEAN : CallReportRequestStatus(id, success)
    \/ \E a \in AddNodeArgs : CallAddNode(a)
    \/ \E o \in Outcomes : ClientDo(o)

ClientSpec == Init /\ [][ClientNext]_vars

\* command calls with the same path, some with query keys that give the same
\* parameter name
PairInputs ==
    { [method |-> "GET", auth |-> AuthOK,
       path |-> <<"ns", "nodes", "n001_AA", "cmd", "DON">>, query |-> q] :
        q \in { <<>>,
                << <<"level.uom2", "50">>, <<"mode", "auto">> >>,
                << <<"level.uom2", "50">>, <<"level", "60">> >> } }

\* concurrent calls drawn from PairInputs: the same request may arrive twice
PairNext ==
    \/ Serve
    \/ ServeReturn
    \/ \E c \in Calls : Accept(c)
    \/ \E c \in Calls : Handler(c, PairInputs)
    \/ Recv
    \/ \E c \in Calls : Return(c)

PairSpec == Init /\ [][PairNext]_vars

\* the calls of the specification with both directions: one accepted, one
\* with a wrong password, one to an unknown path
StallInputs ==
    { [method |-> "GET", auth |-> AuthOK, path |-> <<"ns", "add", "nodes">>,
       query |-> << <<"requestId", "r1">> >>],
      [method |-> "GET", auth |-> AuthBadPass, path |-> <<"ns", "add", "nodes">>,
       query |-> <<>>],
      [method |-> "GET", auth |-> AuthOK, path |-> <<"nodes", "n001_AA", "query">>,
       query |-> <<>>] }

\* the consumer receives from Requests; it is one goroutine, so it does not
\* receive while it is inside an outbound call
ConsumerRecv ==
    /\ lastCall.ret # "pending"
    /\ Recv

\* the consumer calls Complete on a Request it has received
ConsumerComplete ==
    \E i \in 1..Len(received), success \in BOOLEAN :
        CallComplete(req[received[i]][1].request.id, success)

\* the consumer registers a node
ConsumerAddNode ==
    CallAddNode([addr |-> "AA", defId |-> "dimmer", primaryAddr |-> "", name |-> "Lamp"])

\* inbound calls and the consumer's outbound calls together; a panic of the
\* consumer ends the process, handlers included
StallNext ==
    \/ ~crashed /\ Serve
    \/ ~crashed /\ ServeReturn
    \/ ~crashed /\ \E c \in Calls : Accept(c)
    \/ ~crashed /\ \E c \in Calls : Handler(c, StallInputs)
    \/ ~crashed /\ ConsumerRecv
    \/ ~crashed /\ \E c \in Calls : Return(c)
    \/ ConsumerComplete
    \/ ConsumerAddNode
    \/ \E o \in Outcomes : ClientDo(o)

StallSpec == Init /\ [][StallNext]_vars

---------------------------------------------------------------------------
(* Vocabulary of the properties.                                           *)

\* how many times the consumer has received the Request of call c
Count(c) == Cardinality({ i \in 1..Len(received) : received[i] = c })

\* the handler of call c has run on a request
Handled(c) == input[c] # <<>>

\* the request of call c carries the configured username and password
GoodCredentials(c) ==
    /\ input[c][1].auth.kind = "basic"
    /\ input[c][1].auth.username = ConfigUsername
    /\ input[c][1].auth.password = ConfigPassword

Path(c) == input[c][1].path

\* the Request of call c is on the hand-off channel or has passed through it
Offered(c) ==
    \/ pc[c] = "send"
    \/ \E i \in 1..Len(buf) : buf[i] = c
    \/ Count(c) > 0

\* nothing of call c was built, queued or received
NothingDelivered(c) == req[c] = <<>> /\ ~Offered(c)

\* an optional sign and one or more decimal digits
IsInteger(seg) ==
    LET digits == IF Len(seg) >= 1 /\ CharAt(seg, 1) \in {"+", "-"}
                  THEN SubSeq(seg, 2, Len(seg)) ELSE seg
    IN  Len(digits) >= 1 /\ \A i \in 1..Len(digits) : IsDigit(CharAt(digits, i))

---------------------------------------------------------------------------
\* C1: the 204 acknowledgement of a call has reached the controller before
\* the call's Request is offered on the hand-off channel; it does not wait
\* for the consumer.
C1_AckBeforeHandOff ==
    \A c \in Calls : Offered(c) => wire[c] = <<NoContent>>


---------------------------------------------------------------------------
\* C2: with concurrent accepted calls and a consumer that keeps receiving,
\* the Request of every accepted call is eventually received, and no Request
\* is ever received twice; any order of the deliveries is possible.
C2_EachDeliveredExactlyOnce ==
    \A c \in Calls :
        /\ ((req[c] # <<>>) ~> (Count(c) = 1))
        /\ [](Count(c) <= 1)

\* both calls were accepted and delivered, the later connection first
C2_Witness ==
    /\ Len(received) >= 2
    /\ received[1] = 2
    /\ received[2] = 1

---------------------------------------------------------------------------
\* on the three-value command route the unit segment must parse
Decodable(c) ==
    Routes[RouterMatch(Path(c))].name = "nodeCommandValueUnit"
        => IsInteger(Path(c)[Len(Path(c))])

\* C3 (as claimed): every call with the configured credentials whose path
\* matches a route template has exactly one Request constructed, which
\* reaches the consumer.
C3_Original ==
    \A c \in Calls :
        (Handled(c) /\ GoodCredentials(c) /\ RouterMatch(Path(c)) # 0)
            => /\ req[c] # <<>>
               /\ Count(c) <= 1
               /\ (pc[c] = "done" => Count(c) = 1)

\* C3 (amended): the same, for every matching path but a three-value command
\* path whose unit segment is no integer; for that one no Request is
\* constructed and none reaches the consumer.
C3_ExactlyOneRequest ==
    \A c \in Calls :
        (Handled(c) /\ GoodCredentials(c) /\ RouterMatch(Path(c)) # 0)
            => IF Decodable(c)
               THEN /\ req[c] # <<>>
                    /\ Count(c) <= 1
                    /\ (pc[c] = "done" => Count(c) = 1)
               ELSE NothingDelivered(c)

\* an accepted call has returned with its one Request received
C3_Witness ==
    \E c \in Calls :
        /\ Handled(c) /\ GoodCredentials(c) /\ RouterMatch(Path(c)) # 0
        /\ Routes[RouterMatch(Path(c))].name = "addNode"
        /\ pc[c] = "done" /\ Count(c) = 1

---------------------------------------------------------------------------
\* C4: a call whose Basic-Auth header is missing or malformed, whose username
\* or whose password is wrong gets 401 "Unauthorized" without any route
\* matching, whatever its path; no Request is constructed or offered; the
\* response is the same for the three failures.
C4_UnauthorizedShortCircuits ==
    \A c \in Calls :
        (Handled(c) /\ ~GoodCredentials(c))
            => /\ stage[c] = <<"auth">>
               /\ pc[c] = "done"
               /\ resp[c] = Unauthorized
               /\ wire[c] = <<Unauthorized>>
               /\ NothingDelivered(c)

\* a wrong password on a path that matches no route: 401, not 404
C4_Witness ==
    \E c \in Calls :
        /\ Handled(c)
        /\ input[c][1].auth = AuthBadPass
        /\ RouterMatch(Path(c)) = 0
        /\ wire[c] = <<Unauthorized>>

---------------------------------------------------------------------------
\* C5: the hand-off is an unbuffered rendezvous: nothing is ever buffered,
\* the Requests constructed and not yet received are exactly those of the
\* handlers blocked in the send, a handler past the send has had its Request
\* received exactly once, and a handler leaves the send only by the step in
\* which the consumer receives its Request.
C5_Rendezvous ==
    /\ [](/\ buf = <<>>
          /\ { c \in Calls : req[c] # <<>> /\ Count(c) = 0 }
                = { c \in Calls : pc[c] = "send" }
          /\ \A c \in Calls :
                (req[c] # <<>> /\ pc[c] \in {"ret", "done"}) => Count(c) = 1)
    /\ [][\A c \in Calls :
            (pc[c] = "send" /\ pc'[c] # "send")
                => received' = Append(received, c)]_vars

\* every connection of the model is blocked in the send at once
C5_Witness == Len(sendq) = NumCalls

---------------------------------------------------------------------------
\* C6: once Serve / ListenAndServe has returned, the Requests channel is
\* eventually closed.
C6_ClosedAfterServeReturns == (serving = "stopped") ~> chanClosed


---------------------------------------------------------------------------
\* the twelve segment shapes, written out: p is the sequence of segments
TwelveShapes(p) ==
    \/ Len(p) = 2 /\ p[1] = "install" /\ p[2] # ""
    \/ p = <<"add", "nodes">>
    \/ Len(p) = 3 /\ p[1] = "nodes" /\ p[2] # "" /\ p[3] \in {"query", "status"}
    \/ Len(p) = 4 /\ p[1] = "nodes" /\ p[2] # "" /\ p[3] = "report"
                  /\ p[4] \in {"remove", "rename", "enable", "disable"}
    \/ Len(p) = 5 /\ p[1] = "nodes" /\ p[2] # "" /\ p[3] = "report"
                  /\ p[4] = "add" /\ p[5] # ""
    \/ Len(p) \in 4..6 /\ p[1] = "nodes" /\ p[2] # "" /\ p[3] = "cmd"
                  /\ \A i \in 4..Len(p) : p[i] # ""

\* the handler went on to the decoder for call c
Recognised(c) == Len(stage[c]) >= 3

\* what the handler does with an authenticated call it does not recognise
RejectedNotFound(c) ==
    /\ stage[c] = <<"auth", "route">>
    /\ resp[c] = NotFound
    /\ wire[c] = <<NotFound>>
    /\ NothingDelivered(c)

NsShapes(p) == Len(p) >= 1 /\ p[1] = "ns" /\ TwelveShapes(Tail(p))

---------------------------------------------------------------------------
\* the path is a three-value command path, with or without the "ns" segment
IsCmdValueUnit(p) ==
    /\ Len(p) = 6 /\ p[1] = "nodes" /\ p[2] # "" /\ p[3] = "cmd"
    /\ p[4] # "" /\ p[5] # ""

CmdValueUnitPath(p) ==
    \/ IsCmdValueUnit(p)
    \/ Len(p) = 7 /\ p[1] = "ns" /\ IsCmdValueUnit(Tail(p))

\* C8: an authenticated call to the three-value command route whose {unit}
\* segment is no integer is answered 404 "Not Found", never records or sends
\* a 204, and no Request for it is constructed or offered, whatever its query.
C8_BadUnitNotFound ==
    \A c \in Calls :
        (/\ Handled(c) /\ GoodCredentials(c)
         /\ CmdValueUnitPath(Path(c))
         /\ ~IsInteger(Path(c)[Len(Path(c))]))
            => /\ pc[c] = "done"
               /\ resp[c] = NotFound
               /\ wire[c] = <<NotFound>>
               /\ NothingDelivered(c)

\* /ns/nodes/n001_AA/cmd/DON/100/abc with a query was matched, decoded and
\* discarded
C8_Witness ==
    \E c \in Calls :
        /\ Handled(c) /\ GoodCredentials(c)
        /\ Path(c) = <<"ns", "nodes", "n001_AA", "cmd", "DON", "100", "abc">>
        /\ input[c][1].query # <<>>
        /\ stage[c] = <<"auth", "route", "decode">>
        /\ wire[c] = <<NotFound>>

---------------------------------------------------------------------------
\* the suffixes of a string: every a with s = prefix \o a is one of them
Suffixes(s) == { SubSeq(s, k, Len(s)) : k \in 1..(Len(s) + 1) }

\* the Command request the claim describes, for path segments wire address
\* P \o a, command cmd, value v and unit u
IsCommandOf(rq, a, cmd, v, u) ==
    /\ rq # <<>>
    /\ rq[1].type = "CommandRequest"
    /\ rq[1].NodeAddr = a
    /\ rq[1].Command = cmd
    /\ rq[1].Param = << [Value |-> v, UOM |-> UOM(Atoi(u).n)] >>

\* what the claim says of a call whose path is "lead" followed by
\* nodes/{P+a}/cmd/{c}/{v}/{u}
CommandDelivered(c, lead) ==
    LET p == Path(c)
        n == Len(lead)
    IN  (/\ Handled(c) /\ GoodCredentials(c)
         /\ Len(p) = n + 6 /\ SubSeq(p, 1, n) = lead
         /\ IsCmdValueUnit(SubSeq(p, n + 1, n + 6))
         /\ IsInteger(p[n + 6]))
            => /\ \A a \in Suffixes(p[n + 2]) :
                     p[n + 2] = addrPrefix \o a
                        => IsCommandOf(req[c], a, p[n + 4], p[n + 5], p[n + 6])
               /\ (addrPrefix = "n001_" /\ SubSeq(p, n + 1, n + 6) =
                                  <<"nodes", "n001_AA", "cmd", "DON", "100", "51">>)
                     => /\ req[c] # <<>>
                        /\ req[c][1].NodeAddr = "AA"
                        /\ req[c][1].Command = "DON"
                        /\ req[c][1].Param = << [Value |-> "100", UOM |-> UOM(51)] >>
               /\ Count(c) <= 1
               /\ (pc[c] = "done" => Count(c) = 1)

---------------------------------------------------------------------------
\* the positions at which key k reads <name>.uom<digits>
UomSplits(k) ==
    { i \in 0..(Len(k) - 5) :
        /\ SubSeq(k, i + 1, i + 4) = ".uom"
        /\ \A j \in (i + 5)..Len(k) : IsDigit(CharAt(k, j)) }

\* C10: in a delivered command request every query key <name>.uom<digits>
\* gives the parameter <name> with the key's first value and the unit the
\* digits write, and every other key but requestId gives a parameter named
\* by the whole key, with the unknown unit.
C10_QueryUnitRule ==
    \A c \in Calls :
        (Handled(c) /\ req[c] # <<>> /\ req[c][1].type = "CommandRequest")
            => LET q  == input[c][1].query
                   ps == req[c][1].Params
               IN  \A k \in QueryKeys(q) \ {"requestId"} :
                     IF UomSplits(k) # {}
                     THEN \A i \in UomSplits(k) :
                            /\ SubSeq(k, 1, i) \in DOMAIN ps
                            /\ ps[SubSeq(k, 1, i)] =
                                 [Value |-> QueryGet(q, k),
                                  UOM   |-> UOM(DecVal(SubSeq(k, i + 5, Len(k))))]
                     ELSE /\ k \in DOMAIN ps
                          /\ ps[k] = [Value |-> QueryGet(q, k), UOM |-> UOMUnknown]


---------------------------------------------------------------------------
\* the consumer has received the Command request of call c
DeliveredCommand(c) ==
    Count(c) >= 1 /\ req[c] # <<>> /\ req[c][1].type = "CommandRequest"

\* C11: the parameter map of a delivered Command request never has an entry
\* named requestId, for any query; the value of the requestId key is the
\* Request's correlation id.
C11_RequestIdReserved ==
    \A c \in Calls :
        DeliveredCommand(c)
            => /\ "requestId" \notin DOMAIN req[c][1].Params
               /\ req[c][1].request.id = QueryGet(input[c][1].query, "requestId")

---------------------------------------------------------------------------
\* the address-valued fields of the Request of call c, each with the wire
\* value the controller sent for it
AddressFields(c) ==
    LET rq == req[c][1]
        q  == input[c][1].query
    IN  (IF rq.type \in {"InstallRequest", "AddAllNodesRequest"} THEN {}
         ELSE { [field |-> rq.NodeAddr, sent |-> Path(c)[3]] })
        \cup
        (IF rq.type = "AddNodeRequest"
         THEN { [field |-> rq.PrimaryAddr, sent |-> QueryGet(q, "primary")] }
         ELSE {})

\* C13 (as claimed): no address field of a received Request begins with the
\* profile prefix, whatever wire address the controller sent.
C13_Original ==
    \A c \in Calls :
        (Count(c) >= 1 /\ req[c] # <<>>)
            => \A f \in AddressFields(c) : ~HasPrefix(f.field, addrPrefix)

\* C13 (amended): every address field of a received Request is the wire
\* value with one leading profile prefix removed, or the wire value itself
\* when it does not begin with the prefix; so a field begins with the prefix
\* only when the wire value carried the prefix twice.
C13_AddressesUnprefixedOnce ==
    \A c \in Calls :
        (Count(c) >= 1 /\ req[c] # <<>>)
            => \A f \in AddressFields(c) :
                 /\ \A a \in Suffixes(f.sent) :
                        f.sent = addrPrefix \o a => f.field = a
                 /\ ~HasPrefix(f.sent, addrPrefix) => f.field = f.sent
                 /\ HasPrefix(f.field, addrPrefix)
                        => HasPrefix(f.sent, addrPrefix \o addrPrefix)

\* an AddNode request sent with prefixed node and primary addresses was
\* received with both unprefixed
C13_Witness ==
    \E c \in Calls :
        /\ addrPrefix = "n001_"
        /\ Count(c) >= 1 /\ req[c] # <<>>
        /\ req[c][1].type = "AddNodeRequest"
        /\ Path(c)[3] = "n001_AA" /\ req[c][1].NodeAddr = "AA"
        /\ QueryGet(input[c][1].query, "primary") = "n001_BB"
        /\ req[c][1].PrimaryAddr = "BB"

---------------------------------------------------------------------------
\* C17: an authenticated call whose method is not GET, to a path matching a
\* route template, is not acknowledged with 204 and delivers no Request.
C17_GetOnly ==
    \A c \in Calls :
        (/\ Handled(c) /\ GoodCredentials(c)
         /\ input[c][1].method # "GET"
         /\ RouterMatch(Path(c)) # 0)
            => /\ resp[c] # NoContent
               /\ wire[c] # <<NoContent>>
               /\ NothingDelivered(c)

---------------------------------------------------------------------------
\* the query keys that must each give a parameter: all but requestId (every
\* key of a parsed query has at least one value)
ParamKeys(q) == { k \in QueryKeys(q) \ {"requestId"} : Len(QueryValues(q, k)) >= 1 }

\* C18: the parameter map of a delivered Command request has one entry for
\* every query key other than requestId: as many entries as such keys.
C18_ParamsComplete ==
    \A c \in Calls :
        DeliveredCommand(c)
            => Cardinality(DOMAIN req[c][1].Params)
                 = Cardinality(ParamKeys(input[c][1].query))


---------------------------------------------------------------------------
(* Vocabulary of the claims about the outbound calls.                      *)

\* the application addresses the round trip is tried on: empty, plain, equal
\* to a prefix, beginning with a prefix (once, twice), part of a prefix
AddrInputs ==
    {"", "AA", "n", "n001", "n001_", "n012_", "n001_AA", "n012_AA",
     "n001_n001_AA", "_n001_AA"}

\* the outbound call has issued its HTTP request(s)
Issued == lastCall.op # "none" /\ lastCall.ret # "pending"

\* the service base URL the claims name: <ISY base>/rest/ns/<profileNum>/
ServiceBase == clientBaseURL

\* a 2xx status
SuccessStatus(st) == st >= 200 /\ st < 300

\* C12: address translation round-trips: for every application address x,
\* the empty string and strings that begin with the prefix included,
\* fromWire(toWire(x)) = x, for the server's pair (parseAddr, formatAddr) and
\* for the client's pair (ParseAddr, FormatAddr); toWire prepends the prefix.
C12_AddrRoundTrip ==
    \A x \in AddrInputs :
        /\ formatAddr(x) = addrPrefix \o x
        /\ FormatAddr(x) = addrPrefix \o x
        /\ parseAddr(formatAddr(x)) = x
        /\ ParseAddr(FormatAddr(x)) = x

\* AddNode was called for the application address n001_AA under the prefix
\* n001_: the wire address in the URL is n001_n001_AA, which translates back
C12_Witness ==
    /\ addrPrefix = "n001_"
    /\ lastCall.op = "AddNode"
    /\ lastCall.args.addr = "n001_AA"
    /\ Len(lastCall.sent) = 1
    /\ lastCall.sent[1].path[5] = "n001_n001_AA"
    /\ parseAddr(lastCall.sent[1].path[5]) = "n001_AA"

---------------------------------------------------------------------------
\* C14: Complete(success) on a Request with a non-empty correlation id
\* issues exactly one outbound call, to <base>/report/status/<id>/success
\* when success is true and .../fail when it is false; on a Request with an
\* empty id it issues no call and returns no error.
C14_CompleteReports ==
    lastCall.op = "Complete"
        => IF lastCall.args.id = ""
           THEN lastCall.sent = <<>> /\ lastCall.ret = "nil"
           ELSE /\ Len(lastCall.sent) = 1
                /\ lastCall.sent[1].path =
                     ServiceBase \o <<"report", "status", PathEscape(lastCall.args.id),
                                      IF lastCall.args.success THEN "success" ELSE "fail">>

---------------------------------------------------------------------------
\* C15: AddNode(addr, defId, primary, name) issues one outbound call to
\* <base>/nodes/{toWire(addr)}/add/{defId}; its query has primary =
\* toWire(primary) exactly when primary is not empty, name exactly when name
\* is not empty, and nothing else.
C15_AddNodeCall ==
    lastCall.op = "AddNode"
        => /\ Len(lastCall.sent) = 1
           /\ lastCall.sent[1].path =
                ServiceBase \o <<"nodes", PathEscape(addrPrefix \o lastCall.args.addr),
                                 "add", PathEscape(lastCall.args.defId)>>
           /\ lastCall.sent[1].query =
                { <<"primary", addrPrefix \o lastCall.args.primaryAddr>> :
                      x \in { y \in {1} : lastCall.args.primaryAddr # "" } }
                \cup { <<"name", lastCall.args.name>> :
                      x \in { y \in {1} : lastCall.args.name # "" } }

---------------------------------------------------------------------------
\* C16: an outbound call makes one attempt and never retries; when the
\* transport fails or the controller answers with a non-success status it
\* returns an error value to its caller (it neither crashes nor returns
\* success); it returns no error only on a success status.
C16_OneAttemptErrorReturned ==
    (Issued /\ lastCall.sent # <<>>)
        => /\ Len(lastCall.sent) = 1
           /\ lastCall.ret # "panic"
           /\ (lastCall.outcome[1].err \/ ~SuccessStatus(lastCall.outcome[1].status))
                  => lastCall.ret = "error"
           /\ lastCall.ret = "nil"
                  => (~lastCall.outcome[1].err /\ SuccessStatus(lastCall.outcome[1].status))

---------------------------------------------------------------------------
---------------------------------------------------------------------------
\* C20: every outbound URL is the service base URL followed by exactly the
\* given parts, each escaped as one path segment: as many segments as parts,
\* in the same positions, whatever the parts are ("", ".", "..", parts with
\* "/", "?" or "%").
C20_SegmentsPreserved ==
    \A i \in DOMAIN lastCall.sent :
        /\ Len(lastCall.sent[i].path) = Len(ServiceBase) + Len(lastCall.parts)
        /\ \A k \in DOMAIN lastCall.parts :
               lastCall.sent[i].path[Len(ServiceBase) + k] = PathEscape(lastCall.parts[k])


---------------------------------------------------------------------------
\* the call c matched a route and an address it carries (the nodeAddr
\* segment, or the primary parameter of an addNode call) does not begin with
\* the server's profile prefix
CarriesForeignAddr(c) ==
    LET route == RouterMatch(Path(c))
    IN  /\ route # 0
        /\ \/ /\ "{nodeAddr}" \in { Routes[route].tpl[i] : i \in 1..Len(Routes[route].tpl) }
              /\ ~HasPrefix(MatchVar(route, Path(c), "nodeAddr"), addrPrefix)
           \/ /\ Routes[route].name = "addNode"
              /\ ~HasPrefix(QueryGet(input[c][1].query, "primary"), addrPrefix)

\* the handler recorded 204 for call c and built its Request, in which every
\* address sent without the prefix is unchanged; once the call has returned
\* the controller has the 204 and the consumer has the Request
PassedThrough(c) ==
    /\ resp[c] = NoContent
    /\ req[c] # <<>>
    /\ \A f \in AddressFields(c) :
           ~HasPrefix(f.sent, addrPrefix) => f.field = f.sent
    /\ pc[c] = "done" => (wire[c] = <<NoContent>> /\ Count(c) = 1)

\* C22 (as claimed): an authenticated call on a recognised route that carries
\* a nodeAddr (or primary) without the server's profile prefix is not
\* rejected: it is acknowledged with 204 and its Request is delivered with
\* that address unchanged.
C22_Original ==
    \A c \in Calls :
        (Handled(c) /\ GoodCredentials(c) /\ CarriesForeignAddr(c))
            => PassedThrough(c)

\* C22 (amended): such a call is never rejected on account of its address:
\* it is acknowledged with 204 and its Request is delivered with the address
\* unchanged, except on the command route with value and unit when the unit
\* segment is no integer, where the call gets 404 like any other.
C22_FailSafeAddress ==
    \A c \in Calls :
        (Handled(c) /\ GoodCredentials(c) /\ CarriesForeignAddr(c))
            => IF Decodable(c) THEN PassedThrough(c)
               ELSE resp[c] = NotFound /\ NothingDelivered(c)

\* under prefix n001_ a query call for the address n012_AA has returned: the
\* controller has its 204 and the consumer its Request, NodeAddr n012_AA
C22_Witness ==
    \E c \in Calls :
        /\ addrPrefix = "n001_"
        /\ Handled(c) /\ GoodCredentials(c) /\ CarriesForeignAddr(c)
        /\ Path(c) = <<"ns", "nodes", "n012_AA", "query">>
        /\ pc[c] = "done" /\ wire[c] = <<NoContent>> /\ Count(c) = 1
        /\ req[c][1].NodeAddr = "n012_AA"


---------------------------------------------------------------------------
\* C23: decoding is deterministic: two calls with the same path and the same
\* query decode to equal Requests (variant, id, address, command, primary
\* parameter, parameter map), also when two query keys give the same
\* parameter name; the result never depends on the order the keys are
\* visited in.
C23_DecodeDeterministic ==
    \A c, d \in Calls :
        (/\ Handled(c) /\ Handled(d)
         /\ GoodCredentials(c) /\ GoodCredentials(d)
         /\ input[c][1].path = input[d][1].path
         /\ input[c][1].query = input[d][1].query)
            => req[c] = req[d]


---------------------------------------------------------------------------
\* C24: outbound calls leak no connection resources: whenever no outbound
\* call is in progress, every HTTP response obtained from the controller has
\* been closed (the number of open responses is zero), whether the calls
\* returned an error or not.
C24_NoOpenResponses ==
    lastCall.ret # "pending" => openResps = 0


---------------------------------------------------------------------------
\* C21: a slow outbound call stalls only its caller: a call that arrives
\* while the consumer is inside an outbound Complete or AddNode call is
\* authenticated, routed, decoded and answered (204, 401 or 404) without
\* waiting for that outbound call: when its handler has run, the answer is
\* with the controller, or the handler is about to return it and needs
\* nothing from the consumer.
C21_InboundNotStalled ==
    [][\A c \in Calls :
          (lastCall.ret = "pending" /\ pc[c] = "conn" /\ pc'[c] # "conn")
              => (wire'[c] # <<>> \/ pc'[c] = "ret")]_vars

====
